---- MODULE Spec2Model ----
(***************************************************************************)
(* A model of app_assignment3.py, the Lebanon external-finance dashboard.  *)
(*                                                                         *)
(* The script is a Streamlit page: every interaction re-executes it from   *)
(* top to bottom.  What persists between executions is the cached raw      *)
(* table (st.cache_data), the mapping file on disk and the widget values;  *)
(* everything else (df, fdf, line_df, idx_df, wide_ratio, corr_df) is a    *)
(* script local recomputed by the execution.  An action of this model is   *)
(* one execution of the whole script; an uncaught exception ends the       *)
(* execution at the statement that raised it.  The bar chart and the log   *)
(* scale checkbox feed no derived series and are left out.                 *)
(***************************************************************************)
EXTENDS Integers, Sequences, FiniteSets, TLC

VARIABLES
    mapfile,     \* debt_code_mapping.csv: whether it exists, and its rows
    cached,      \* the raw table read_csv_any returns (st.cache_data)
    pc,          \* "start", "ready" (sidebar rendered) or "stopped"
    halt,        \* the statement that ended the last execution, or "none"
    friendly,    \* the code -> display-name dict (a set of pairs)
    err,         \* the ValueError of normalize_columns shown by st.error
    df,          \* the normalized Dataset
    w,           \* the widget values
    fdf,         \* the year-range slice
    line_df,     \* the slice of the selected line codes
    idx_df,      \* the indexed series
    wide_ratio,  \* the ratio series
    corr_df      \* the rolling correlation series

vars == <<mapfile, cached, pc, halt, friendly, err, df, w,
          fdf, line_df, idx_df, wide_ratio, corr_df>>

(***************************************************************************)
(* Sequences and sets.                                                     *)
(***************************************************************************)
Range(s) == {s[i] : i \in DOMAIN s}

Min2(a, b) == IF a <= b THEN a ELSE b

\* The sequence a function on 1..n is, as a tuple.
Tup(f) == f \o <<>>

\* All subsequences of s (rows kept in their order).
RECURSIVE SubSeqs(_)
SubSeqs(s) ==
    IF s = <<>> THEN {<<>>}
    ELSE LET rest == SubSeqs(Tail(s))
         IN  rest \cup {<<Head(s)>> \o t : t \in rest}

(***************************************************************************)
(* Numbers.  A float is a pair <<n, d>>: the rational n/d in lowest terms  *)
(* with d > 0, or one of the IEEE specials <<1,0>> (inf), <<-1,0>> (-inf), *)
(* <<0,0>> (NaN).  Arithmetic is exact: rounding is not modelled.          *)
(***************************************************************************)
Abs(x) == IF x < 0 THEN -x ELSE x

Sign(x) == IF x < 0 THEN -1 ELSE IF x > 0 THEN 1 ELSE 0

RECURSIVE Gcd(_, _)
Gcd(a, b) == IF b = 0 THEN a ELSE Gcd(b, a % b)

Rat(n, d) ==
    IF d = 0 THEN <<Sign(n), 0>>
    ELSE LET g == Gcd(Abs(n), Abs(d))
         IN  <<(Sign(d) * n) \div g, Abs(d) \div g>>

NaN == <<0, 0>>

IntNum(i) == <<i, 1>>

IsNaN(a) == a = NaN

IsFinite(a) == a[2] # 0

RMul(a, b) == Rat(a[1] * b[1], a[2] * b[2])

Recip(a) ==
    IF a[2] = 0 THEN (IF a[1] = 0 THEN NaN ELSE <<0, 1>>)
    ELSE IF a[1] = 0 THEN <<1, 0>>
    ELSE <<Sign(a[1]) * a[2], Abs(a[1])>>

RDiv(a, b) == RMul(a, Recip(b))

RAdd(a, b) ==
    IF IsFinite(a) /\ IsFinite(b) THEN Rat(a[1] * b[2] + b[1] * a[2], a[2] * b[2])
    ELSE IF IsNaN(a) \/ IsNaN(b) THEN NaN
    ELSE IF ~IsFinite(a) /\ ~IsFinite(b) THEN (IF a = b THEN a ELSE NaN)
    ELSE IF IsFinite(a) THEN b ELSE a

RNeg(a) == <<-a[1], a[2]>>

RSub(a, b) == RAdd(a, RNeg(b))

\* a < b; any comparison with NaN is false.
RLess(a, b) ==
    /\ ~IsNaN(a) /\ ~IsNaN(b)
    /\ IF IsFinite(a) /\ IsFinite(b) THEN a[1] * b[2] < b[1] * a[2]
       ELSE IF ~IsFinite(a) /\ ~IsFinite(b) THEN a[1] < b[1]
       ELSE IF IsFinite(a) THEN b[1] > 0 ELSE a[1] < 0

RLeq(a, b) == ~IsNaN(a) /\ ~IsNaN(b) /\ (a = b \/ RLess(a, b))

RECURSIVE RSum(_)
RSum(s) == IF s = <<>> THEN IntNum(0) ELSE RAdd(Head(s), RSum(Tail(s)))

RMean(s) == RDiv(RSum(s), IntNum(Len(s)))

\* sorted(S) for a set S of floats none of which is NaN.
SortedNums(S) ==
    Tup([i \in 1..Cardinality(S) |->
            CHOOSE x \in S : Cardinality({y \in S : RLess(y, x)}) = i - 1])

(***************************************************************************)
(* Cells and tables.  A cell of a DataFrame is a number or a string (a     *)
(* sequence of characters); a table is its column names and its rows, a    *)
(* row holding one cell per column.                                        *)
(***************************************************************************)
NumCell(a) == [k |-> "num", v |-> a, s |-> <<>>]

StrCell(chars) == [k |-> "str", v |-> NaN, s |-> chars]

NaCell == NumCell(NaN)

\* pandas isna: a float NaN; a string is never missing.
IsNa(c) == c.k = "num" /\ IsNaN(c.v)

Table(cols, rows) == [cols |-> cols, rows |-> rows]

NoTable == Table(<<>>, <<>>)

HasCol(t, name) == name \in Range(t.cols)

\* Position of the column called name (no table here has two of a name).
ColIdx(t, name) == CHOOSE i \in DOMAIN t.cols : t.cols[i] = name

Cell(t, r, name) == r[ColIdx(t, name)]

\* df[new] = cells : a column appended, one cell per row.
AddCol(t, name, cells) ==
    Table(Append(t.cols, name),
          Tup([n \in DOMAIN t.rows |-> Append(t.rows[n], cells[n])]))

(***************************************************************************)
(* Strings.  Python orders strings by code point; Alphabet lists, in that  *)
(* order, the characters the indicator codes of the model use.             *)
(***************************************************************************)
Alphabet == <<".", "C", "D", "E", "G", "N", "O", "S", "T", "Z">>

CharRank(ch) == CHOOSE i \in DOMAIN Alphabet : Alphabet[i] = ch

RECURSIVE StrLess(_, _)
StrLess(a, b) ==
    IF b = <<>> THEN FALSE
    ELSE IF a = <<>> THEN TRUE
    ELSE IF Head(a) = Head(b) THEN StrLess(Tail(a), Tail(b))
    ELSE CharRank(Head(a)) < CharRank(Head(b))

Digits == <<"0", "1", "2", "3", "4", "5", "6", "7", "8", "9">>

IsDigits(chars) == chars # <<>> /\ \A i \in DOMAIN chars : chars[i] \in Range(Digits)

DigitVal(ch) == (CHOOSE i \in DOMAIN Digits : Digits[i] = ch) - 1

RECURSIVE ParseInt(_)
ParseInt(chars) ==
    IF chars = <<>> THEN 0
    ELSE 10 * ParseInt(SubSeq(chars, 1, Len(chars) - 1)) + DigitVal(chars[Len(chars)])

\* pd.to_numeric(errors="coerce") on one cell: a number stays, a string of
\* digits is parsed, anything else becomes NaN.
ToNumeric(c) ==
    IF c.k = "num" THEN c
    ELSE IF IsDigits(c.s) THEN NumCell(IntNum(ParseInt(c.s)))
    ELSE NaCell

\* sorted(S) for a set S of strings.
SortedStrs(S) ==
    Tup([i \in 1..Cardinality(S) |->
            CHOOSE x \in S : Cardinality({y \in S : StrLess(y, x)}) = i - 1])

\* df[name] = pd.to_numeric(df[name], errors="coerce")
ToNumericCol(t, name) ==
    LET i == ColIdx(t, name)
    IN  Table(t.cols, Tup([n \in DOMAIN t.rows |-> [t.rows[n] EXCEPT ![i] = ToNumeric(@)]]))

(***************************************************************************)
(* Friendly names.                                                         *)
(***************************************************************************)
\* dict(zip(keys, values)): a later row with the same key replaces an earlier one.
DictOfRows(rows) ==
    {<<rows[i][1], rows[i][2]>> : i \in {j \in DOMAIN rows :
        \A k \in DOMAIN rows : k > j => rows[k][1] # rows[j][1]}}

\* load_mapping(): the dict of the mapping file when it exists; otherwise the
\* function returns _fallback_map, a name the module never binds: NameError.
load_mapping(file) ==
    IF file.exists THEN [raised |-> "none", dict |-> DictOfRows(file.rows)]
    ELSE [raised |-> "NameError", dict |-> {}]

\* friendly.get(code, code)
DictGet(dict, key, default) ==
    IF \E p \in dict : p[1] = key THEN (CHOOSE p \in dict : p[1] = key)[2] ELSE default

name_for(dict, code) == DictGet(dict, code, code)

(***************************************************************************)
(* normalize_columns.                                                      *)
(***************************************************************************)
PeriodAliases == <<"Year", "year", "RefPeriod", "refperiod">>

CodeAliases == <<"Indicator_Code", "IndicatorCode", "indicator_code">>

ValueAliases == <<"value", "VAL", "Amount">>

required == {"refPeriod", "Indicator Code", "Value"}

\* The loop without its break: every alias that is a column is renamed.
EveryAlias(alts, cols, canonical) ==
    {<<alts[i], canonical>> : i \in {j \in DOMAIN alts : alts[j] \in Range(cols)}}

\* for alt in alts: if alt in df.columns: ren[alt] = canonical; break
RECURSIVE FirstAlias(_, _, _)
FirstAlias(alts, cols, canonical) ==
    IF alts = <<>> THEN {}
    ELSE IF Head(alts) \in Range(cols) THEN {<<Head(alts), canonical>>}
    ELSE FirstAlias(Tail(alts), cols, canonical)

\* if canonical not in df.columns: (the loop above)
RenFor(canonical, alts, cols) ==
    IF canonical \in Range(cols) THEN {} ELSE FirstAlias(alts, cols, canonical)

RenOf(cols) ==
    RenFor("refPeriod", PeriodAliases, cols)
        \cup RenFor("Indicator Code", CodeAliases, cols)
        \cup RenFor("Value", ValueAliases, cols)

\* df.rename(columns=ren)
Rename(t, ren) ==
    Table(Tup([i \in DOMAIN t.cols |-> DictGet(ren, t.cols[i], t.cols[i])]), t.rows)

\* df.dropna(subset=["refPeriod","Value"])
DropNa(t, subset) ==
    Table(t.cols, SelectSeq(t.rows, LAMBDA r : \A name \in subset : ~IsNa(Cell(t, r, name))))

NoError == [raised |-> FALSE, missing |-> {}, found |-> <<>>]

\* if ren: df = df.rename(columns=ren)
Renamed(t, ren) == IF ren # {} THEN Rename(t, ren) ELSE t

\* The whole required set reported as soon as one name is missing.
MissingAll(cols) == IF required \subseteq Range(cols) THEN {} ELSE required

\* missing = required - set(df.columns)
Missing(cols) == required \ Range(cols)

\* The rows dropped on refPeriod alone.
CoercedPeriodOnly(t) ==
    DropNa(ToNumericCol(ToNumericCol(t, "refPeriod"), "Value"), {"refPeriod"})

\* Lines 55-57: both columns coerced, then the rows with a NaN in either dropped.
Coerced(t) ==
    DropNa(ToNumericCol(ToNumericCol(t, "refPeriod"), "Value"),
           {"refPeriod", "Value"})

\* Lines 52-57: the ValueError with its message, or the coerced table.
CheckRequired(t, missing) ==
    IF missing # {}
    THEN [err |-> [raised |-> TRUE, missing |-> missing, found |-> t.cols],
          df  |-> NoTable]
    ELSE [err |-> NoError, df |-> Coerced(t)]

Validated(t) == CheckRequired(t, Missing(t.cols))

\* The whole function: its result, or the ValueError it raises.
normalize_columns(raw) == Validated(Renamed(raw, RenOf(raw.cols)))

(***************************************************************************)
(* The sidebar: the widgets' options and default values.                   *)
(***************************************************************************)
PeriodOf(t, r) == Cell(t, r, "refPeriod").v

CodeOf(t, r) == Cell(t, r, "Indicator Code").s

ValueOf(t, r) == Cell(t, r, "Value").v

\* int(x): truncation towards zero.
IntOf(a) == Sign(a[1]) * (Abs(a[1]) \div a[2])

\* sorted(df["refPeriod"].unique())
years(d) == SortedNums({PeriodOf(d, d.rows[i]) : i \in DOMAIN d.rows})

\* sorted(df["Indicator Code"].dropna().unique().tolist())
all_codes(d) == SortedStrs({CodeOf(d, d.rows[i]) : i \in DOMAIN d.rows})

First(s) == s[1]

Last(s) == s[Len(s)]

yr_min(d) == IntOf(First(years(d)))

yr_max(d) == IntOf(Last(years(d)))

\* sorted(set(df["refPeriod"].astype(int))): the options of the base-year slider.
BaseYearOptions(d) == {IntOf(PeriodOf(d, d.rows[i])) : i \in DOMAIN d.rows}

DT_DOD_DECT_CD == <<"D", "T", ".", "D", "O", "D", ".", "D", "E", "C", "T", ".", "C", "D">>

DT_TDS_DECT_GN_ZS ==
    <<"D", "T", ".", "T", "D", "S", ".", "D", "E", "C", "T", ".", "G", "N", ".", "Z", "S">>

RECOMMENDED_LINE == <<DT_DOD_DECT_CD>>

\* [c for c in RECOMMENDED_LINE if c in all_codes], else all_codes[:2]
PresentOrFirstTwo(present, codes) ==
    IF present # <<>> THEN present ELSE SubSeq(codes, 1, Min2(2, Len(codes)))

default_present_line(codes) ==
    PresentOrFirstTwo(SelectSeq(RECOMMENDED_LINE, LAMBDA c : c \in Range(codes)), codes)

RollWinMin == 3

RollWinMax == 10

RollWinDefault == 5

\* Python's seq[i] for i >= -1 on a non-empty list.
PyIndex(s, i) == IF i < 0 THEN s[Len(s) + 1 + i] ELSE s[i + 1]

NoWidgets ==
    [year_range |-> <<0, 0>>, line_codes |-> {}, base_year |-> 0,
     x_code |-> <<>>, y_code |-> <<>>, num_code |-> <<>>, den_code |-> <<>>,
     roll_win |-> RollWinDefault]

\* The value each widget takes the first time the script renders it.
DefaultsOf(lo, hi, codes) ==
    [year_range |-> <<lo, hi>>,
     line_codes |-> Range(default_present_line(codes)),
     base_year  |-> lo,
     x_code     |-> PyIndex(codes, 0),
     y_code     |-> PyIndex(codes, Min2(1, Len(codes) - 1)),
     num_code   |-> PyIndex(codes, 0),
     den_code   |-> PyIndex(codes, Min2(1, Len(codes) - 1)),
     roll_win   |-> RollWinDefault]

Defaults(d) == DefaultsOf(yr_min(d), yr_max(d), all_codes(d))

(***************************************************************************)
(* The filtered slices.                                                    *)
(***************************************************************************)
\* The range taken without its upper bound.
InYearsBelow(d, yr) ==
    Table(d.cols, SelectSeq(d.rows, LAMBDA r : /\ RLeq(IntNum(yr[1]), PeriodOf(d, r))
                                              /\ RLess(PeriodOf(d, r), IntNum(yr[2]))))

\* df[(df["refPeriod"] >= year_range[0]) & (df["refPeriod"] <= year_range[1])]
InYears(d, yr) ==
    Table(d.cols, SelectSeq(d.rows, LAMBDA r : /\ RLeq(IntNum(yr[1]), PeriodOf(d, r))
                                              /\ RLeq(PeriodOf(d, r), IntNum(yr[2]))))

\* fdf["Label"] = fdf["Indicator Code"].map(name_for)
Labelled(slice, dict) ==
    AddCol(slice, "Label",
           [n \in DOMAIN slice.rows |-> StrCell(name_for(dict, CodeOf(slice, slice.rows[n])))])

\* fdf, with its Label column
Filtered(d, yr, dict) == Labelled(InYears(d, yr), dict)

\* t[t["Indicator Code"].isin(codes)]
IsIn(t, codes) == Table(t.cols, SelectSeq(t.rows, LAMBDA r : CodeOf(t, r) \in codes))

(***************************************************************************)
(* The wide view: pivot_table(index="refPeriod", columns="Indicator Code", *)
(* values="Value").dropna().  One row per period, ascending; one column    *)
(* per code that occurs, ascending; a cell is the mean of the observations *)
(* of its (period, code), NaN when there is none.                          *)
(***************************************************************************)
ValuesOf(t, hit) == Tup([i \in DOMAIN hit |-> ValueOf(t, hit[i])])

ValuesAt(t, p, c) ==
    ValuesOf(t, SelectSeq(t.rows, LAMBDA r : PeriodOf(t, r) = p /\ CodeOf(t, r) = c))

\* aggfunc="mean"
PivotCell(vs) == IF vs = <<>> THEN NaN ELSE RMean(vs)

PivotOn(t, codes, periods) ==
    [cols |-> codes,
     rows |-> Tup([i \in DOMAIN periods |->
                     [refPeriod |-> periods[i],
                      v |-> Tup([j \in DOMAIN codes |->
                                   PivotCell(ValuesAt(t, periods[i], codes[j]))])]])]

pivot_table(t) == PivotOn(t, all_codes(t), years(t))

WideDropNa(wd) ==
    [cols |-> wd.cols,
     rows |-> SelectSeq(wd.rows, LAMBDA r : \A j \in DOMAIN r.v : ~IsNaN(r.v[j]))]

Wide(t, codes) == WideDropNa(pivot_table(IsIn(t, codes)))

WideHas(wd, code) == code \in Range(wd.cols)

\* wide[code]: the column as a sequence over the rows.
WideCol(wd, code) ==
    LET j == CHOOSE k \in DOMAIN wd.cols : wd.cols[k] = code
    IN  Tup([i \in DOMAIN wd.rows |-> wd.rows[i].v[j]])

(***************************************************************************)
(* The derived views.  A view's st is "ok" (computed), "none" (its guard   *)
(* was false: nothing computed, nothing drawn), "raised" (its code raised) *)
(* or "skipped" (an earlier statement of the execution raised).            *)
(***************************************************************************)
\* px.scatter(wide_scatter.reset_index(), x=x_code, y=y_code, ...) rejects,
\* with a ValueError, an x or y that names no column of the frame.
ScatterRaises(wd, x, y) ==
    wd.rows # <<>> /\ ~(WideHas(wd, x) /\ WideHas(wd, y))

\* base.get(code, nan) on the Series indexed by "Indicator Code": the scalar
\* of a code that occurs once, the default for one that does not occur, and
\* the sub-Series of all its values for a code that occurs several times.
BaseGet(base, code) ==
    LET hit == SelectSeq(base.rows, LAMBDA r : CodeOf(base, r) = code)
    IN  IF hit = <<>> THEN <<NaN>> ELSE ValuesOf(base, hit)

\* (r["Value"] / base.get(r["Indicator Code"], nan)) * 100, element by element.
IndexOfRow(t, base, r) ==
    LET b == BaseGet(base, CodeOf(t, r))
    IN  Tup([i \in DOMAIN b |-> RMul(RDiv(ValueOf(t, r), b[i]), IntNum(100))])

IndexWith(slice, base) ==
    IF slice.rows = <<>> \/ base.rows = <<>>
    THEN [st |-> "none", t |-> slice]
    ELSE IF \E i \in DOMAIN slice.rows : Len(IndexOfRow(slice, base, slice.rows[i])) # 1
    THEN [st |-> "raised", t |-> slice]
    ELSE [st |-> "ok",
          t  |-> DropNa(AddCol(slice, "Index_100",
                               [n \in DOMAIN slice.rows |->
                                   NumCell(IndexOfRow(slice, base, slice.rows[n])[1])]),
                        {"Index_100"})]

\* base = idx_df[idx_df["refPeriod"] == base_year].set_index("Indicator Code")["Value"]
IndexOn(slice, base_year) ==
    IndexWith(slice, Table(slice.cols,
                           SelectSeq(slice.rows, LAMBDA r : PeriodOf(slice, r) = IntNum(base_year))))

\* Lines 169-175.  A row whose lambda returns a Series instead of a scalar
\* cannot become a cell of the Index_100 column: the statement raises.
IndexStep(f, line_codes, base_year) == IndexOn(IsIn(f, line_codes), base_year)

\* wide_ratio[num_code] / wide_ratio[den_code], row by row
Quotients(xs, ys) == Tup([i \in DOMAIN xs |-> RDiv(xs[i], ys[i])])

RatioOn(wd, num_code, den_code) ==
    IF wd.rows = <<>> THEN [st |-> "none", wide |-> wd, ratio |-> <<>>]
    ELSE IF ~(WideHas(wd, num_code) /\ WideHas(wd, den_code))
    THEN [st |-> "raised", wide |-> wd, ratio |-> <<>>]
    ELSE [st |-> "ok", wide |-> wd,
          ratio |-> Quotients(WideCol(wd, num_code), WideCol(wd, den_code))]

\* Lines 184-188.  wide_ratio[code] of a code that is no column: KeyError.
RatioStep(f, num_code, den_code) == RatioOn(Wide(f, {num_code, den_code}), num_code, den_code)

\* r * |r| from the covariance and the two variances; 0/0 is NaN.
PearsonFrom(cov, vx, vy) == RDiv(RMul(cov, <<Abs(cov[1]), cov[2]>>), RMul(vx, vy))

PearsonOf(mx, my, mxy, mxx, myy) ==
    PearsonFrom(RSub(mxy, RMul(mx, my)), RSub(mxx, RMul(mx, mx)), RSub(myy, RMul(my, my)))

Products(xs, ys) == Tup([i \in DOMAIN xs |-> RMul(xs[i], ys[i])])

\* Pearson's r of two equally long sequences, held as r * |r| so that the
\* arithmetic stays rational.
Pearson(xs, ys) ==
    PearsonOf(RMean(xs), RMean(ys), RMean(Products(xs, ys)),
              RMean(Products(xs, xs)), RMean(Products(ys, ys)))

\* xs.rolling(win).corr(ys): NaN until win observations are in the window.
RollingCorr(xs, ys, win) ==
    Tup([i \in DOMAIN xs |->
            IF i < win THEN NaN
            ELSE Pearson(SubSeq(xs, i - win + 1, i), SubSeq(ys, i - win + 1, i))])

\* corr_series.reset_index(), its columns named refPeriod and Correlation
CorrFrame(wd, series) ==
    Tup([i \in DOMAIN wd.rows |->
            [refPeriod |-> wd.rows[i].refPeriod, Correlation |-> series[i]]])

\* Lines 198-204, on corr_wide
CorrOn(wd, x, y, win) ==
    IF wd.rows = <<>> \/ Len(wd.rows) < win THEN [st |-> "none", rows |-> <<>>]
    ELSE IF ~(WideHas(wd, x) /\ WideHas(wd, y)) THEN [st |-> "raised", rows |-> <<>>]
    ELSE [st |-> "ok",
          rows |-> CorrFrame(wd, RollingCorr(WideCol(wd, x), WideCol(wd, y), win))]

SkippedIdx == [st |-> "skipped", t |-> NoTable]

SkippedRatio == [st |-> "skipped", wide |-> [cols |-> <<>>, rows |-> <<>>], ratio |-> <<>>]

SkippedCorr == [st |-> "skipped", rows |-> <<>>]

(***************************************************************************)
(* One execution of the script.                                            *)
(***************************************************************************)
ChartsRecord(where, f, wv, ix, ra, co) ==
    [halt |-> where, fdf |-> f, line_df |-> IsIn(f, wv.line_codes),
     idx_df |-> ix, wide_ratio |-> ra, corr_df |-> co]

\* Lines 198-211
AfterRatio(f, wv, ix, ra, co) ==
    ChartsRecord(IF co.st = "raised" THEN "corr" ELSE "none", f, wv, ix, ra, co)

\* Lines 184-211
AfterIndex(f, wv, xy, ix, ra) ==
    IF ra.st = "raised" THEN ChartsRecord("ratio", f, wv, ix, ra, SkippedCorr)
    ELSE AfterRatio(f, wv, ix, ra, CorrOn(xy, wv.x_code, wv.y_code, wv.roll_win))

\* Lines 169-211
AfterScatter(f, wv, xy, ix) ==
    IF ix.st = "raised" THEN ChartsRecord("index", f, wv, ix, SkippedRatio, SkippedCorr)
    ELSE AfterIndex(f, wv, xy, ix, RatioStep(f, wv.num_code, wv.den_code))

\* Lines 126-211, on the slice fdf and on xy, the wide view of x_code and
\* y_code that the script computes twice, by the same expression, as
\* wide_scatter (line 156) and as corr_wide (line 198).
ChartsWith(f, wv, xy) ==
    IF ScatterRaises(xy, wv.x_code, wv.y_code)
    THEN ChartsRecord("scatter", f, wv, SkippedIdx, SkippedRatio, SkippedCorr)
    ELSE AfterScatter(f, wv, xy, IndexStep(f, wv.line_codes, wv.base_year))

ChartsOn(f, wv) == ChartsWith(f, wv, Wide(f, {wv.x_code, wv.y_code}))

\* Lines 123-211: the charts, in the order the script computes them.
Charts(d, dict, wv) == ChartsOn(Filtered(d, wv.year_range, dict), wv)

NoCharts ==
    [fdf |-> NoTable, line_df |-> NoTable, idx_df |-> SkippedIdx,
     wide_ratio |-> SkippedRatio, corr_df |-> SkippedCorr]

\* st.stop(), or an exception before the sidebar exists.
Stopped(where, dict, e, d) ==
    [pc |-> "stopped", halt |-> where, friendly |-> dict, err |-> e, df |-> d,
     w |-> NoWidgets] @@ NoCharts

\* Lines 73-211
Rendered(dict, d, wv) ==
    [pc |-> "ready", friendly |-> dict, err |-> NoError, df |-> d, w |-> wv]
        @@ Charts(d, dict, wv)

\* Lines 68-211.  min(years) of an empty Dataset raises at line 76.
AfterNormalize(dict, n, wv, first) ==
    IF n.err.raised THEN Stopped("normalize_columns", dict, n.err, NoTable)
    ELSE IF n.df.rows = <<>> THEN Stopped("sidebar", dict, NoError, n.df)
    ELSE Rendered(dict, n.df, IF first THEN Defaults(n.df) ELSE wv)

\* Lines 26-211
AfterMapping(m, raw, wv, first) ==
    IF m.raised # "none" THEN Stopped("load_mapping", {}, NoError, NoTable)
    ELSE AfterNormalize(m.dict, normalize_columns(raw), wv, first)

\* Lines 17-211.  wv is the widget state the execution starts with; on the
\* first execution of a session every widget takes its default.
Script(file, raw, wv, first) == AfterMapping(load_mapping(file), raw, wv, first)

(***************************************************************************)
(* The files of a session.                                                 *)
(***************************************************************************)
\* pd.read_csv: a column whose non-blank cells are all numerals is numeric,
\* any other column holds its cells as strings; a blank cell is NaN.
read_csv_any(csv) ==
    LET numeric(j) == \A i \in DOMAIN csv.rows :
                          csv.rows[i][j] = <<>> \/ IsDigits(csv.rows[i][j])
        cell(i, j) == IF csv.rows[i][j] = <<>> THEN NaCell
                      ELSE IF numeric(j) THEN NumCell(IntNum(ParseInt(csv.rows[i][j])))
                      ELSE StrCell(csv.rows[i][j])
    IN  Table(csv.cols,
              Tup([i \in DOMAIN csv.rows |-> Tup([j \in DOMAIN csv.cols |-> cell(i, j)])]))

Y2019 == <<"2", "0", "1", "9">>
Y2020 == <<"2", "0", "2", "0">>
Y2021 == <<"2", "0", "2", "1">>
Y2022 == <<"2", "0", "2", "2">>

Canonical == <<"refPeriod", "Indicator Code", "Value">>

\* Rows of a dataset of two indicators over two years, with a repeated
\* (period, code) pair and a zero value.
MainMaster ==
    << <<Y2019, DT_DOD_DECT_CD, <<"1", "0", "0", "0">> >>,
       <<Y2020, DT_DOD_DECT_CD, <<"1", "1", "0", "0">> >>,
       <<Y2020, DT_TDS_DECT_GN_ZS, <<"0">> >>,
       <<Y2019, DT_DOD_DECT_CD, <<"5", "0", "0">> >>,
       <<Y2019, DT_TDS_DECT_GN_ZS, <<"5">> >>,
       <<Y2020, DT_DOD_DECT_CD, <<"0">> >>,
       <<Y2019, DT_TDS_DECT_GN_ZS, <<"1", "0">> >> >>

\* Rows of a dataset of two indicators over four years, not in period order.
CorrMaster ==
    << <<Y2020, DT_DOD_DECT_CD, <<"2">> >>,
       <<Y2019, DT_DOD_DECT_CD, <<"1">> >>,
       <<Y2019, DT_TDS_DECT_GN_ZS, <<"2">> >>,
       <<Y2020, DT_TDS_DECT_GN_ZS, <<"1">> >>,
       <<Y2021, DT_DOD_DECT_CD, <<"4">> >>,
       <<Y2021, DT_TDS_DECT_GN_ZS, <<"3">> >>,
       <<Y2022, DT_DOD_DECT_CD, <<"3">> >>,
       <<Y2022, DT_TDS_DECT_GN_ZS, <<"5">> >>,
       <<Y2021, DT_DOD_DECT_CD, <<"6">> >> >>

\* Rows of four raw cells (period, code, value, an extra column): numerals,
\* text that is no number, blanks.
NormMaster ==
    << <<Y2020, DT_TDS_DECT_GN_ZS, <<"5">>, Y2019>>,
       <<Y2019, DT_DOD_DECT_CD, <<"7">>, <<"x">> >>,
       <<<<"x">>, DT_DOD_DECT_CD, <<"1">>, Y2020>>,
       <<Y2019, DT_TDS_DECT_GN_ZS, <<>>, Y2019>>,
       <<<<>>, DT_DOD_DECT_CD, <<"x", "1">>, Y2021>>,
       <<Y2021, DT_DOD_DECT_CD, <<"3">>, <<>> >> >>

MainRows == 4

CorrRows == 6

NormRows == 4

MaxWin == 3

Prefix(s, n) == SubSeq(s, 1, Min2(n, Len(s)))

MainCsvs == {[cols |-> Canonical, rows |-> rs] : rs \in SubSeqs(Prefix(MainMaster, MainRows))}

CorrCsvs == {[cols |-> Canonical, rows |-> rs] : rs \in SubSeqs(Prefix(CorrMaster, CorrRows))}

\* Headers: a canonical name, an alias or an unknown name for each field, and
\* possibly a further column that carries an alias of refPeriod.
NormHeaders ==
    {h \in {<<c1, c2, c3>> \o x :
               c1 \in {"refPeriod", "Year", "refperiod", "Period"},
               c2 \in {"Indicator Code", "IndicatorCode", "Code"},
               c3 \in {"Value", "VAL", "Amount", "Qty"},
               x  \in {<<>>, <<"Year">>, <<"year">>}} :
        \A i, j \in DOMAIN h : h[i] = h[j] => i = j}

NormCsvs ==
    {[cols |-> h, rows |-> [i \in DOMAIN rs |-> SubSeq(rs[i], 1, Len(h))]] :
        h \in NormHeaders, rs \in SubSeqs(Prefix(NormMaster, NormRows))}

NoMapFile == [exists |-> FALSE, rows |-> <<>>]

\* A mapping file that names the first indicator (twice: the later row wins).
AMapFile ==
    [exists |-> TRUE,
     rows   |-> << <<DT_DOD_DECT_CD, <<"O", "l", "d">> >>,
                   <<DT_DOD_DECT_CD, <<"D", "e", "b", "t">> >> >>]

(***************************************************************************)
(* The session.                                                            *)
(***************************************************************************)
InitWith(files, csvs) ==
    /\ mapfile \in files
    /\ cached \in {read_csv_any(c) : c \in csvs}
    /\ pc = "start"
    /\ halt = "none"
    /\ friendly = {}
    /\ err = NoError
    /\ df = NoTable
    /\ w = NoWidgets
    /\ fdf = NoCharts.fdf
    /\ line_df = NoCharts.line_df
    /\ idx_df = NoCharts.idx_df
    /\ wide_ratio = NoCharts.wide_ratio
    /\ corr_df = NoCharts.corr_df

\* The locals and widget state an execution leaves behind.
Publish(r) ==
    /\ pc' = r.pc
    /\ halt' = r.halt
    /\ friendly' = r.friendly
    /\ err' = r.err
    /\ df' = r.df
    /\ w' = r.w
    /\ fdf' = r.fdf
    /\ line_df' = r.line_df
    /\ idx_df' = r.idx_df
    /\ wide_ratio' = r.wide_ratio
    /\ corr_df' = r.corr_df
    /\ UNCHANGED <<mapfile, cached>>

\* An execution that keeps the indexed view of the execution before it.
ExecuteKeepingIndex(wv) ==
    \E r \in {Script(mapfile, cached, wv, pc = "start")} :
        Publish(IF pc = "ready" THEN [r EXCEPT !.idx_df = idx_df] ELSE r)

\* One execution of the script with the widget values wv.
Execute(wv) == \E r \in {Script(mapfile, cached, wv, pc = "start")} : Publish(r)

\* The page is opened.
FirstRun == pc = "start" /\ Execute(NoWidgets)

\* A widget is moved: Streamlit runs the script again.
SetYearRange(lo, hi) ==
    /\ pc = "ready"
    /\ lo <= hi
    /\ <<lo, hi>> # w.year_range
    /\ Execute([w EXCEPT !.year_range = <<lo, hi>>])

SetLineCodes(codes) ==
    /\ pc = "ready"
    /\ codes # w.line_codes
    /\ Execute([w EXCEPT !.line_codes = codes])

SetBaseYear(y) ==
    /\ pc = "ready"
    /\ y # w.base_year
    /\ Execute([w EXCEPT !.base_year = y])

SetXCode(c) ==
    /\ pc = "ready"
    /\ c # w.x_code
    /\ Execute([w EXCEPT !.x_code = c])

SetYCode(c) ==
    /\ pc = "ready"
    /\ c # w.y_code
    /\ Execute([w EXCEPT !.y_code = c])

SetNumCode(c) ==
    /\ pc = "ready"
    /\ c # w.num_code
    /\ Execute([w EXCEPT !.num_code = c])

SetDenCode(c) ==
    /\ pc = "ready"
    /\ c # w.den_code
    /\ Execute([w EXCEPT !.den_code = c])

SetRollWin(n) ==
    /\ pc = "ready"
    /\ n \in RollWinMin..RollWinMax
    /\ n # w.roll_win
    /\ Execute([w EXCEPT !.roll_win = n])

\* What the widgets of the rendered sidebar offer.
YearOptions == IF pc = "ready" THEN yr_min(df)..yr_max(df) ELSE {}

CodeOptions == IF pc = "ready" THEN Range(all_codes(df)) ELSE {}

BaseOptions == IF pc = "ready" THEN BaseYearOptions(df) ELSE {}

Wins == RollWinMin..Min2(RollWinMax, MaxWin)

Init == InitWith({NoMapFile, AMapFile}, MainCsvs)

Next ==
    \/ FirstRun
    \/ \E lo \in YearOptions, hi \in YearOptions : SetYearRange(lo, hi)
    \/ \E codes \in SUBSET CodeOptions : SetLineCodes(codes)
    \/ \E y \in BaseOptions : SetBaseYear(y)
    \/ \E c \in CodeOptions : SetXCode(c)
    \/ \E c \in CodeOptions : SetYCode(c)
    \/ \E c \in CodeOptions : SetNumCode(c)
    \/ \E c \in CodeOptions : SetDenCode(c)
    \/ \E n \in Wins : SetRollWin(n)

Spec == Init /\ [][Next]_vars

\* Sessions over tables whose headers and cells vary.
InitNorm == InitWith({AMapFile}, NormCsvs)

NextNorm ==
    \/ FirstRun
    \/ \E lo \in YearOptions, hi \in YearOptions : SetYearRange(lo, hi)

SpecNorm == InitNorm /\ [][NextNorm]_vars

\* Sessions over four years of data, for the rolling correlation.
InitCorr == InitWith({AMapFile}, CorrCsvs)

NextCorr ==
    \/ FirstRun
    \/ \E lo \in YearOptions, hi \in YearOptions : SetYearRange(lo, hi)
    \/ \E c \in CodeOptions : SetXCode(c)
    \/ \E c \in CodeOptions : SetYCode(c)
    \/ \E n \in Wins : SetRollWin(n)

SpecCorr == InitCorr /\ [][NextCorr]_vars

(***************************************************************************)
(* Properties of normalize_columns.                                        *)
(***************************************************************************)
\* The execution got as far as calling normalize_columns.
Normalized == pc # "start" /\ halt # "load_mapping"

AliasesOf(c) ==
    IF c = "refPeriod" THEN PeriodAliases
    ELSE IF c = "Indicator Code" THEN CodeAliases
    ELSE ValueAliases

\* The alias that stands for the canonical field c in a header: the earliest
\* entry of c's alias list that is a column, when c itself is no column.
StandsFor(c, cols) ==
    {a \in Range(AliasesOf(c)) :
        /\ c \notin Range(cols)
        /\ \E i \in DOMAIN AliasesOf(c) :
              /\ AliasesOf(c)[i] = a
              /\ a \in Range(cols)
              /\ \A j \in 1..(i - 1) : AliasesOf(c)[j] \notin Range(cols)}

\* The header with each such alias replaced by its canonical name.
CanonicalHeader(cols) ==
    Tup([i \in DOMAIN cols |->
            IF \E c \in required : cols[i] \in StandsFor(c, cols)
            THEN CHOOSE c \in required : cols[i] \in StandsFor(c, cols)
            ELSE cols[i]])

\* The canonical fields a header provides neither by name nor by alias.
Unprovided(cols) ==
    {c \in required :
        c \notin Range(cols) /\ Range(AliasesOf(c)) \cap Range(cols) = {}}

\* A raw cell that holds a number, and the number it holds.
Coercible(c) == IF c.k = "num" THEN ~IsNaN(c.v) ELSE IsDigits(c.s)

NumberIn(c) == IF c.k = "num" THEN c.v ELSE IntNum(ParseInt(c.s))

\* The raw rows whose period and value cells both hold a number, in order.
KeptRows ==
    LET t == Table(CanonicalHeader(cached.cols), cached.rows)
    IN  SelectSeq(t.rows, LAMBDA r : /\ Coercible(Cell(t, r, "refPeriod"))
                                     /\ Coercible(Cell(t, r, "Value")))

\* C1. When the three canonical columns are there after renaming, the Dataset
\* is exactly the raw rows whose period and value cells both coerce to a
\* number, in their original order, with those two cells as numbers: no row
\* of it misses a period or a value, and no coercible row is dropped.
C1_RowsKept ==
    (Normalized /\ ~err.raised) =>
        /\ Len(df.rows) = Len(KeptRows)
        /\ \A i \in DOMAIN df.rows : \A j \in DOMAIN df.cols :
              df.rows[i][j] = IF df.cols[j] \in {"refPeriod", "Value"}
                              THEN NumCell(NumberIn(KeptRows[i][j]))
                              ELSE KeptRows[i][j]
        /\ \A i \in DOMAIN df.rows :
              /\ ~IsNa(Cell(df, df.rows[i], "refPeriod"))
              /\ ~IsNa(Cell(df, df.rows[i], "Value"))

\* A Dataset that kept some rows and dropped others, one of the dropped rows
\* having a period but no numeric value.
C1_SomeDropped ==
    /\ Normalized /\ ~err.raised
    /\ df.rows # <<>>
    /\ Len(df.rows) < Len(cached.rows)
    /\ \E i \in DOMAIN cached.rows :
          LET t == Table(CanonicalHeader(cached.cols), cached.rows)
          IN  /\ Coercible(Cell(t, t.rows[i], "refPeriod"))
              /\ ~Coercible(Cell(t, t.rows[i], "Value"))

\* C2. A schema error is raised exactly when some canonical field is still
\* absent after alias renaming; its message names exactly the absent fields
\* and the columns found; no Dataset is produced and nothing is computed
\* after it.  With all three fields present no schema error is raised.
C2_SchemaError ==
    Normalized =>
        /\ err.raised <=> Unprovided(cached.cols) # {}
        /\ err.raised =>
              /\ err.missing = Unprovided(cached.cols)
              /\ err.found = CanonicalHeader(cached.cols)
              /\ pc = "stopped"
              /\ halt = "normalize_columns"
              /\ df = NoTable
              /\ fdf = NoTable
              /\ line_df = NoTable
              /\ idx_df.st = "skipped"
              /\ wide_ratio.st = "skipped"
              /\ corr_df.st = "skipped"

\* A schema error that names one field of the three while an alias of
\* another was renamed.
C2_OneFieldMissing ==
    /\ err.raised
    /\ Cardinality(err.missing) = 1
    /\ err.found # cached.cols

\* C9. For a canonical field whose name is absent, only the first alias of
\* its list that is a column is renamed, one renaming per field at most, and
\* none for a field whose name is present; the table then normalizes to what
\* the table with the canonical header and the same cells normalizes to.
C9_AliasResolution ==
    Normalized =>
        /\ (IF err.raised THEN err.found ELSE df.cols) = CanonicalHeader(cached.cols)
        /\ [err |-> err, df |-> df]
              = normalize_columns(Table(CanonicalHeader(cached.cols), cached.rows))

\* A table with two aliases of refPeriod: the first of the list became
\* refPeriod, the other kept its name.
C9_FirstAliasOnly ==
    /\ pc = "ready"
    /\ {"Year", "refperiod"} \subseteq Range(cached.cols)
    /\ {"refPeriod", "refperiod"} \subseteq Range(df.cols)
    /\ "Year" \notin Range(df.cols)

(***************************************************************************)
(* Properties of the friendly names.                                       *)
(***************************************************************************)
\* The name the mapping file gives a code: that of the last row for the code.
MappedName(code) ==
    LET hit == SelectSeq(mapfile.rows, LAMBDA r : r[1] = code)
    IN  IF hit = <<>> THEN code ELSE hit[Len(hit)][2]

\* C3. Loading the mapping succeeds whether the mapping file exists or not,
\* and every code then resolves to its mapped name, or to itself when it
\* is not mapped.
C3_ResolverTotal ==
    pc # "start" =>
        /\ halt # "load_mapping"
        /\ pc = "ready" =>
              \A i \in DOMAIN fdf.rows :
                  Cell(fdf, fdf.rows[i], "Label")
                      = StrCell(MappedName(CodeOf(fdf, fdf.rows[i])))

\* The execution that ended in load_mapping, the mapping file being absent.
C3_NameError == ~mapfile.exists /\ pc = "stopped" /\ halt = "load_mapping"

(***************************************************************************)
(* Properties of the filtered slices.                                      *)
(***************************************************************************)
\* lo <= a <= hi for a float a and integers lo, hi.
Within(lo, hi, a) == IsFinite(a) /\ lo * a[2] <= a[1] /\ a[1] <= hi * a[2]

\* The rows of a slice without its Label column.
Unlabelled(t) == Tup([i \in DOMAIN t.rows |-> SubSeq(t.rows[i], 1, Len(df.cols))])

\* C4. The filter returns exactly the rows with min <= period <= max and a
\* code of the code set, in their original order, duplicates kept; an empty
\* code set gives an empty result and no error.
C4_Filter ==
    pc = "ready" =>
        /\ Unlabelled(line_df)
              = SelectSeq(df.rows, LAMBDA r :
                    /\ Within(w.year_range[1], w.year_range[2], PeriodOf(df, r))
                    /\ CodeOf(df, r) \in w.line_codes)
        /\ w.line_codes = {} => line_df.rows = <<>> /\ halt # "index"

\* A one-year range that keeps two observations of one (period, code) pair
\* and excludes other rows.
C4_DuplicatesKept ==
    /\ pc = "ready"
    /\ w.year_range[1] = w.year_range[2]
    /\ Len(line_df.rows) < Len(df.rows)
    /\ \E i, j \in DOMAIN line_df.rows :
          /\ i < j
          /\ PeriodOf(line_df, line_df.rows[i]) = PeriodOf(line_df, line_df.rows[j])
          /\ CodeOf(line_df, line_df.rows[i]) = CodeOf(line_df, line_df.rows[j])

\* What the charts of the state are when computed from df and w alone.
Fresh ==
    [halt |-> halt, fdf |-> fdf, line_df |-> line_df, idx_df |-> idx_df,
     wide_ratio |-> wide_ratio, corr_df |-> corr_df] = Charts(df, friendly, w)

HasObs(t, p, c) ==
    \E i \in DOMAIN t.rows : PeriodOf(t, t.rows[i]) = p /\ CodeOf(t, t.rows[i]) = c

\* The periods at which both codes have an observation.
JointPeriods(t, a, b) ==
    {p \in {PeriodOf(t, t.rows[i]) : i \in DOMAIN t.rows} : HasObs(t, p, a) /\ HasObs(t, p, b)}

\* The value of code c at period p: the mean of its observations there.
MeanAt(t, p, c) ==
    RMean(ValuesOf(t, SelectSeq(t.rows, LAMBDA r : PeriodOf(t, r) = p /\ CodeOf(t, r) = c)))

\* The execution reached the statements of the indexed view.
IndexReached == pc = "ready" /\ idx_df.st # "skipped"

BaseYear == IntNum(w.base_year)

\* C5. Every row of a selected code that has a value at the base year is
\* output with indexed value = value / base value * 100, so the rows at the
\* base year carry exactly 100; the data may repeat a (period, code) pair.
C5_IndexedTo100 ==
    (IndexReached /\ \E c \in w.line_codes : HasObs(fdf, BaseYear, c)) =>
        /\ idx_df.st = "ok"
        /\ \A i \in DOMAIN idx_df.t.rows :
              LET r == idx_df.t.rows[i]
              IN  /\ HasObs(fdf, BaseYear, CodeOf(idx_df.t, r))
                  /\ \E k \in DOMAIN fdf.rows :
                        /\ PeriodOf(fdf, fdf.rows[k]) = BaseYear
                        /\ CodeOf(fdf, fdf.rows[k]) = CodeOf(idx_df.t, r)
                        /\ Cell(idx_df.t, r, "Index_100").v
                              = RMul(RDiv(ValueOf(idx_df.t, r), ValueOf(fdf, fdf.rows[k])),
                                     IntNum(100))
                  /\ PeriodOf(idx_df.t, r) = BaseYear
                        => Cell(idx_df.t, r, "Index_100").v = IntNum(100)

\* The indexed view raised: a selected code has two observations at the base year.
C5_DuplicateBase ==
    /\ pc = "ready"
    /\ idx_df.st = "raised"
    /\ \E c \in w.line_codes :
          Len(SelectSeq(fdf.rows, LAMBDA r : PeriodOf(fdf, r) = BaseYear
                                             /\ CodeOf(fdf, r) = c)) > 1

\* C6. A selected code without an observation at the base year contributes
\* no row to the indexed output and raises nothing; when no selected code
\* has one, the indexed result is empty and nothing is raised.
C6_MissingBase ==
    IndexReached =>
        /\ idx_df.st # "raised"
        /\ idx_df.st = "ok" =>
              \A i \in DOMAIN idx_df.t.rows :
                  HasObs(fdf, BaseYear, CodeOf(idx_df.t, idx_df.t.rows[i]))
        /\ (\A c \in w.line_codes : ~HasObs(fdf, BaseYear, c)) => idx_df.st = "none"

\* The indexed view raised while a selected code has no observation at the
\* base year.
C6_MissingBaseRaised ==
    /\ pc = "ready"
    /\ idx_df.st = "raised"
    /\ \E c \in w.line_codes :
          /\ ~HasObs(fdf, BaseYear, c)
          /\ \E i \in DOMAIN fdf.rows : CodeOf(fdf, fdf.rows[i]) = c

\* The execution reached the statements of the ratio view.
RatioReached == pc = "ready" /\ wide_ratio.st # "skipped"

\* C8. The ratio has one entry for each period at which both codes have a
\* value and none for any other period; the entry is value[num] / value[den]
\* of the aggregated values, a zero denominator included; nothing is raised.
C8_RatioInnerJoin ==
    RatioReached =>
        /\ wide_ratio.st # "raised"
        /\ Len(wide_ratio.ratio) = Cardinality(JointPeriods(fdf, w.num_code, w.den_code))
        /\ \A i \in DOMAIN wide_ratio.ratio :
              LET p == wide_ratio.wide.rows[i].refPeriod
              IN  /\ p \in JointPeriods(fdf, w.num_code, w.den_code)
                  /\ wide_ratio.ratio[i]
                        = RDiv(MeanAt(fdf, p, w.num_code), MeanAt(fdf, p, w.den_code))

\* The ratio view raised: the slice holds rows of one of the two codes only.
C8_KeyError ==
    /\ pc = "ready"
    /\ wide_ratio.st = "raised"
    /\ JointPeriods(fdf, w.num_code, w.den_code) = {}

\* The periods at which both scatter codes have a value, ascending.
JointYears == SortedNums(JointPeriods(fdf, w.x_code, w.y_code))

\* C7. With n the number of periods at which both codes have a value, the
\* rolling correlation is empty when n < window and has otherwise exactly
\* n - window + 1 entries, none for the first window - 1 positions; nothing
\* is raised.  (Executions that the indexed or the ratio view ended before
\* the correlation are left aside.)
C7_EntriesFromWindow ==
    (pc = "ready" /\ halt \notin {"index", "ratio"}) =>
        /\ halt = "none"
        /\ IF Len(JointYears) < w.roll_win THEN corr_df.rows = <<>>
           ELSE Len(corr_df.rows) = Len(JointYears) - w.roll_win + 1

\* A correlation over exactly window joint periods: one entry per period,
\* the first window - 1 of them NaN, the last one defined.
C7_EntryPerPeriod ==
    /\ pc = "ready"
    /\ corr_df.st = "ok"
    /\ w.x_code # w.y_code
    /\ Len(JointYears) = w.roll_win
    /\ Len(corr_df.rows) = w.roll_win
    /\ \A i \in 1..(w.roll_win - 1) : IsNaN(corr_df.rows[i].Correlation)
    /\ ~IsNaN(corr_df.rows[w.roll_win].Correlation)

====
